---------------------------- MODULE Spec2Model ----------------------------
(***************************************************************************)
(* A model of src/miscellaneous/logger.py: the Logger facade over the      *)
(* process-wide registry of named loggers of Python's logging module.      *)
(*                                                                         *)
(* Facts of the logging module the model relies on:                        *)
(*   - logging.getLogger(name) returns the one logger object of that name, *)
(*     shared by everything in the process;                                *)
(*   - logging.FileHandler is a subclass of logging.StreamHandler, so      *)
(*     isinstance(h, logging.StreamHandler) is true of a file handler;     *)
(*   - a handler's name is None unless somebody sets it;                   *)
(*   - Logger.critical/error/warning/info/debug test isEnabledFor against  *)
(*     the logger's CURRENT level before handing the record to each        *)
(*     attached handler.                                                   *)
(***************************************************************************)
EXTENDS Integers, Sequences, FiniteSets, TLC

VARIABLES
    loggers,    \* logging's registry: logger name -> [level, handlers]
    nextId,     \* identity of the next handler object to be created
    sinks,      \* handler id -> the records written to that handler's sink
    facades,    \* the Logger instances constructed so far, in order
    configured, \* per facade: the log_level its construction was given
    last,       \* the operation that completed last, with what it saw before
    pc,         \* per thread: position inside a concurrent Logger()
    locals      \* per thread: the local variables of __init__/_get_logger

vars == <<loggers, nextId, sinks, facades, configured, last, pc, locals>>

---------------------------------------------------------------------------
(* Bounds of the model *)

MaxFacades == 2

MaxRecords == 1

MaxPre == 1

---------------------------------------------------------------------------
(* Constants of the program *)

None == "None"

Severities == {"CRITICAL", "ERROR", "WARNING", "INFO", "DEBUG"}

LOG_LEVELS ==
    [s \in Severities |->
        CASE s = "CRITICAL" -> 50
          [] s = "ERROR"    -> 40
          [] s = "WARNING"  -> 30
          [] s = "INFO"     -> 20
          [] s = "DEBUG"    -> 10]

DEFAULT_log_level == "INFO"

DEFAULT_logger_name == "main_logger"

\* Path(sys.argv[0]).parents[1] / "logs" / <today>.log
DEFAULT_save_path == "logs/today.log"

LoggerNames == {DEFAULT_logger_name}

\* logging.NOTSET, the level of a logger nobody configured
NOTSET == 0

\* The settings module as a construction may find it: not imported, imported
\* without any of the three attributes, or imported with all of them set.
\* None stands for an attribute the module does not have.
Settings ==
    {[imported |-> FALSE, log_level |-> None, save_path |-> None, logger_name |-> None],
     [imported |-> TRUE, log_level |-> None, save_path |-> None, logger_name |-> None],
     [imported |-> TRUE, log_level |-> "ERROR", save_path |-> "custom.log",
      logger_name |-> DEFAULT_logger_name]}

hasattr(s, a) ==
    CASE a = "log_level"   -> s.log_level # None
      [] a = "save_path"   -> s.save_path # None
      [] a = "logger_name" -> s.logger_name # None

_get_data_from_settings(s) ==
    [log_level   |-> IF s.imported /\ hasattr(s, "log_level")
                     THEN s.log_level ELSE DEFAULT_log_level,
     save_path   |-> IF s.imported /\ hasattr(s, "save_path")
                     THEN s.save_path ELSE DEFAULT_save_path,
     logger_name |-> IF s.imported /\ hasattr(s, "logger_name")
                     THEN s.logger_name ELSE DEFAULT_logger_name]

---------------------------------------------------------------------------
(* Handlers and loggers *)

StreamHandler(id) ==
    [id |-> id, kind |-> "StreamHandler", name |-> None, path |-> None]

FileHandler(id, path) ==
    [id |-> id, kind |-> "FileHandler", name |-> None, path |-> path]

\* isinstance(h, logging.StreamHandler): FileHandler derives from StreamHandler
IsStreamInstance(h) == h.kind \in {"StreamHandler", "FileHandler"}

IsFileInstance(h) == h.kind = "FileHandler"

stream_handlers(hs) == SelectSeq(hs, IsStreamInstance)

\* file_handlers with the type test lost: nothing is ever found
file_handlers_unguarded(hs) == << >>

file_handlers(hs) == SelectSeq(hs, IsFileInstance)

\* What the logger really has: console sinks are the stream handlers that are
\* not file handlers.
ConsoleSinks(hs) == SelectSeq(hs, LAMBDA h : h.kind = "StreamHandler")

FileSinks(hs) == SelectSeq(hs, LAMBDA h : h.kind = "FileHandler")

Ids(hs) == {hs[i].id : i \in 1..Len(hs)}

\* Logger.getEffectiveLevel: an unconfigured logger inherits the root's WARNING
getEffectiveLevel(lg) == IF lg.level = NOTSET THEN LOG_LEVELS["WARNING"] ELSE lg.level

isEnabledFor(lg, level) == level >= getEffectiveLevel(lg)

\* _get_logger run to its end by one caller: the level is set, then each guard
\* is decided on the handler list as it was found, the console sink is attached
\* first and the file sink (mkdir + open, which may raise) second.
_get_logger(lg, log_level, save_path, ioOK, id) ==
    LET found    == lg.handlers
        noStream == Len(stream_handlers(found)) = 0
        noFile   == Len(file_handlers(found)) = 0
        hs1      == IF noStream THEN Append(found, StreamHandler(id)) ELSE found
        id1      == IF noStream THEN id + 1 ELSE id
        raised   == noFile /\ ~ioOK
        hs2      == IF noFile /\ ioOK
                    THEN Append(hs1, FileHandler(id1, save_path)) ELSE hs1
        id2      == IF noFile /\ ioOK THEN id1 + 1 ELSE id1
    IN  [logger |-> [level |-> LOG_LEVELS[log_level], handlers |-> hs2],
         raised |-> raised,
         nextId |-> id2]

\* the sinks of the handlers created between two values of nextId start empty
WithNewSinks(sk, from, to) ==
    [i \in DOMAIN sk \cup (from..(to - 1)) |-> IF i \in DOMAIN sk THEN sk[i] ELSE << >>]

Threads == {1, 2}

NoLast ==
    [op |-> "none", facade |-> 0, sev |-> None, logger |-> None,
     handlers_before |-> << >>, po_before |-> FALSE, sinks_before |-> << >>]

IdleLocals ==
    [data |-> None, nStream |-> 0, nFile |-> 0]

---------------------------------------------------------------------------
(* Initial states *)

\* A fresh process: no logger has been configured and none has a handler.
Init ==
    /\ loggers = [n \in LoggerNames |-> [level |-> NOTSET, handlers |-> << >>]]
    /\ nextId = 1
    /\ sinks = << >>
    /\ facades = << >>
    /\ configured = << >>
    /\ last = NoLast
    /\ pc = [t \in Threads |-> "idle"]
    /\ locals = [t \in Threads |-> IdleLocals]

---------------------------------------------------------------------------
(* Sequential operations *)

\* Logger(): __init__ with the settings s; ioOK says whether creating the
\* directory and opening the file would succeed.
Construct(s, ioOK) ==
    LET data == _get_data_from_settings(s)
        name == data.logger_name
        r    == _get_logger(loggers[name], data.log_level, data.save_path, ioOK, nextId)
    IN  /\ Len(facades) < MaxFacades
        /\ ioOK \/ r.raised          \* I/O has an outcome only where it is attempted
        /\ loggers' = [loggers EXCEPT ![name] = r.logger]
        /\ nextId' = r.nextId
        /\ sinks' = WithNewSinks(sinks, nextId, r.nextId)
        /\ IF r.raised
           THEN /\ UNCHANGED <<facades, configured>>
                /\ last' = [NoLast EXCEPT !.op = "construct_raised",
                                          !.logger = name,
                                          !.handlers_before = loggers[name].handlers]
           ELSE /\ facades' = Append(facades,
                        [logger |-> name,
                         log_level_is_on |->
                             [k \in Severities |-> isEnabledFor(r.logger, LOG_LEVELS[k])],
                         problem_occurred |-> FALSE,
                         save_path |-> data.save_path])
                /\ configured' = Append(configured, data.log_level)
                /\ last' = [NoLast EXCEPT !.op = "construct",
                                          !.facade = Len(facades) + 1,
                                          !.logger = name,
                                          !.handlers_before = loggers[name].handlers]
        /\ UNCHANGED <<pc, locals>>

\* replace_handlers as it would be if it also cleared problem_occurred
replace_handlers_clearing(f, s, ioOK) ==
    LET data    == _get_data_from_settings(s)
        own     == facades[f].logger
        kept    == SelectSeq(loggers[own].handlers, LAMBDA h : h.name # data.logger_name)
        removed == [loggers EXCEPT ![own].handlers = kept]
        r       == _get_logger(removed[data.logger_name], data.log_level,
                               data.save_path, ioOK, nextId)
    IN  /\ ioOK \/ r.raised          \* I/O has an outcome only where it is attempted
        /\ loggers' = [removed EXCEPT ![data.logger_name] = r.logger]
        /\ nextId' = r.nextId
        /\ sinks' = WithNewSinks(sinks, nextId, r.nextId)
        /\ facades' = [facades EXCEPT ![f].problem_occurred = FALSE]
        /\ last' = [NoLast EXCEPT !.op = IF r.raised THEN "replace_raised"
                                         ELSE "replace_handlers",
                                  !.facade = f,
                                  !.logger = own,
                                  !.handlers_before = loggers[own].handlers,
                                  !.po_before = facades[f].problem_occurred]
        /\ UNCHANGED <<configured, pc, locals>>

\* Logger.replace_handlers on facade f, the settings being s: the handlers of
\* the facade's own logger whose name equals the configured logger name are
\* removed, then _get_logger runs for the configured name.
replace_handlers(f, s, ioOK) ==
    LET data    == _get_data_from_settings(s)
        own     == facades[f].logger
        kept    == SelectSeq(loggers[own].handlers, LAMBDA h : h.name # data.logger_name)
        removed == [loggers EXCEPT ![own].handlers = kept]
        r       == _get_logger(removed[data.logger_name], data.log_level,
                               data.save_path, ioOK, nextId)
    IN  /\ ioOK \/ r.raised          \* I/O has an outcome only where it is attempted
        /\ loggers' = [removed EXCEPT ![data.logger_name] = r.logger]
        /\ nextId' = r.nextId
        /\ sinks' = WithNewSinks(sinks, nextId, r.nextId)
        /\ last' = [NoLast EXCEPT !.op = IF r.raised THEN "replace_raised"
                                         ELSE "replace_handlers",
                                  !.facade = f,
                                  !.logger = own,
                                  !.handlers_before = loggers[own].handlers,
                                  !.po_before = facades[f].problem_occurred]
        /\ UNCHANGED <<facades, configured, pc, locals>>

\* level_is_on with the cached flag ignored: every call is forwarded
level_is_on_ignored(f, sev) == TRUE

\* the test every logging method starts with: self.log_level_is_on[<sev>]
level_is_on(f, sev) == facades[f].log_level_is_on[sev]

\* the methods that set problem_occurred
Problems == {"CRITICAL", "ERROR", "WARNING"}

\* logging.Logger.<sev>(*args): if the logger's current level admits the
\* severity, each attached handler emits the record.
callHandlers(sk, lg, rec) ==
    IF isEnabledFor(lg, LOG_LEVELS[rec.sev])
    THEN [i \in DOMAIN sk |-> IF i \in Ids(lg.handlers) THEN Append(sk[i], rec) ELSE sk[i]]
    ELSE sk

\* The sinks after facade f called its <sev> method.
SinksAfterCall(f, sev) ==
    IF level_is_on(f, sev)
    THEN callHandlers(sinks, loggers[facades[f].logger], [sev |-> sev, facade |-> f])
    ELSE sinks

\* The body shared by the five logging methods of facade f.
LogCall(f, sev) ==
    /\ \A i \in DOMAIN sinks : Len(SinksAfterCall(f, sev)[i]) <= MaxRecords
    /\ sinks' = SinksAfterCall(f, sev)
    /\ facades' = IF level_is_on(f, sev) /\ sev \in Problems
                  THEN [facades EXCEPT ![f].problem_occurred = TRUE]
                  ELSE facades
    /\ last' = [NoLast EXCEPT !.op = "log",
                              !.facade = f,
                              !.sev = sev,
                              !.logger = facades[f].logger,
                              !.handlers_before = loggers[facades[f].logger].handlers,
                              !.po_before = facades[f].problem_occurred,
                              !.sinks_before = sinks]
    /\ UNCHANGED <<loggers, nextId, configured, pc, locals>>

critical(f) == LogCall(f, "CRITICAL")

error(f) == LogCall(f, "ERROR")

warning(f) == LogCall(f, "WARNING")

info(f) == LogCall(f, "INFO")

debug(f) == LogCall(f, "DEBUG")

Next ==
    \/ \E s \in Settings, ioOK \in BOOLEAN : Construct(s, ioOK)
    \/ \E f \in DOMAIN facades, s \in Settings, ioOK \in BOOLEAN :
           replace_handlers(f, s, ioOK)
    \/ \E f \in DOMAIN facades : critical(f)
    \/ \E f \in DOMAIN facades : error(f)
    \/ \E f \in DOMAIN facades : warning(f)
    \/ \E f \in DOMAIN facades : info(f)
    \/ \E f \in DOMAIN facades : debug(f)

Spec == Init /\ [][Next]_vars

---------------------------------------------------------------------------
(* A process in which other code attached handlers to the named logger     *)
(* before the first Logger() ran: logging.getLogger hands out the same     *)
(* logger object to everybody.                                             *)

ExternalHandlers ==
    [id : {0}, kind : {"StreamHandler", "FileHandler"},
     name : {None, DEFAULT_logger_name}, path : {None}]

PreHandlers ==
    UNION {[1..k -> ExternalHandlers] : k \in 0..MaxPre}

Numbered(hs) == [i \in 1..Len(hs) |-> [hs[i] EXCEPT !.id = i]]

InitPre ==
    /\ \E hs \in PreHandlers :
          /\ loggers = [n \in LoggerNames |->
                            [level |-> NOTSET, handlers |-> Numbered(hs)]]
          /\ nextId = Len(hs) + 1
          /\ sinks = [i \in 1..Len(hs) |-> << >>]
    /\ facades = << >>
    /\ configured = << >>
    /\ last = NoLast
    /\ pc = [t \in Threads |-> "idle"]
    /\ locals = [t \in Threads |-> IdleLocals]

SpecPre == InitPre /\ [][Next]_vars

---------------------------------------------------------------------------
(* Two threads each running Logger() once; a step is a stretch of code     *)
(* between two points where the other thread may run.  No lock is held     *)
(* from the scan of logger.handlers to the addHandler that follows it.     *)

TheLogger(t) == loggers[locals[t].data.logger_name]

\* line 59: the settings are read
T_settings(t, s) ==
    /\ pc[t] = "idle"
    /\ locals' = [locals EXCEPT ![t].data = _get_data_from_settings(s)]
    /\ pc' = [pc EXCEPT ![t] = "setLevel"]
    /\ UNCHANGED <<loggers, nextId, sinks, facades, configured, last>>

\* lines 95-96: getLogger, setLevel
T_setLevel(t) ==
    /\ pc[t] = "setLevel"
    /\ loggers' = [loggers EXCEPT ![locals[t].data.logger_name].level =
                                      LOG_LEVELS[locals[t].data.log_level]]
    /\ pc' = [pc EXCEPT ![t] = "scan_stream"]
    /\ UNCHANGED <<nextId, sinks, facades, configured, last, locals>>

\* lines 98-102
T_scan_stream(t) ==
    /\ pc[t] = "scan_stream"
    /\ locals' = [locals EXCEPT ![t].nStream = Len(stream_handlers(TheLogger(t).handlers))]
    /\ pc' = [pc EXCEPT ![t] = "scan_file"]
    /\ UNCHANGED <<loggers, nextId, sinks, facades, configured, last>>

\* lines 103-107
T_scan_file(t) ==
    /\ pc[t] = "scan_file"
    /\ locals' = [locals EXCEPT ![t].nFile = Len(file_handlers(TheLogger(t).handlers))]
    /\ pc' = [pc EXCEPT ![t] = "add_stream"]
    /\ UNCHANGED <<loggers, nextId, sinks, facades, configured, last>>

\* lines 108-113
T_add_stream(t) ==
    /\ pc[t] = "add_stream"
    /\ IF locals[t].nStream = 0
       THEN /\ loggers' = [loggers EXCEPT ![locals[t].data.logger_name].handlers =
                                              Append(@, StreamHandler(nextId))]
            /\ nextId' = nextId + 1
            /\ sinks' = WithNewSinks(sinks, nextId, nextId + 1)
       ELSE UNCHANGED <<loggers, nextId, sinks>>
    /\ pc' = [pc EXCEPT ![t] = "add_file"]
    /\ UNCHANGED <<facades, configured, last, locals>>

\* lines 115-122
T_add_file(t, ioOK) ==
    /\ pc[t] = "add_file"
    /\ ioOK \/ locals[t].nFile = 0  \* I/O has an outcome only where it is attempted
    /\ IF locals[t].nFile = 0 /\ ioOK
       THEN /\ loggers' = [loggers EXCEPT ![locals[t].data.logger_name].handlers =
                                              Append(@, FileHandler(nextId, locals[t].data.save_path))]
            /\ nextId' = nextId + 1
            /\ sinks' = WithNewSinks(sinks, nextId, nextId + 1)
       ELSE UNCHANGED <<loggers, nextId, sinks>>
    /\ pc' = [pc EXCEPT ![t] = IF locals[t].nFile = 0 /\ ~ioOK THEN "raised" ELSE "cache"]
    /\ UNCHANGED <<facades, configured, last, locals>>

\* lines 61-66
T_cache(t) ==
    /\ pc[t] = "cache"
    /\ facades' = Append(facades,
            [logger |-> locals[t].data.logger_name,
             log_level_is_on |->
                 [k \in Severities |-> isEnabledFor(TheLogger(t), LOG_LEVELS[k])],
             problem_occurred |-> FALSE,
             save_path |-> locals[t].data.save_path])
    /\ configured' = Append(configured, locals[t].data.log_level)
    /\ pc' = [pc EXCEPT ![t] = "done"]
    /\ UNCHANGED <<loggers, nextId, sinks, last, locals>>

NextConc ==
    \/ \E t \in Threads, s \in Settings : T_settings(t, s)
    \/ \E t \in Threads : T_setLevel(t)
    \/ \E t \in Threads : T_scan_stream(t)
    \/ \E t \in Threads : T_scan_file(t)
    \/ \E t \in Threads : T_add_stream(t)
    \/ \E t \in Threads, ioOK \in BOOLEAN : T_add_file(t, ioOK)
    \/ \E t \in Threads : T_cache(t)

SpecConc == Init /\ [][NextConc]_vars

---------------------------------------------------------------------------
(* The claims *)

Handlers(n) == loggers[n].handlers

OneConsoleOneFile(hs) == Len(ConsoleSinks(hs)) = 1 /\ Len(FileSinks(hs)) = 1

Rank(sev) == LOG_LEVELS[sev]

\* C1: a call of the method of a severity ranked below the threshold the
\* facade was constructed with writes no record to any sink and leaves
\* problem_occurred as it was.
C1_BelowThresholdSilent ==
    (last.op = "log" /\ Rank(last.sev) < Rank(configured[last.facade]))
        => /\ sinks = last.sinks_before
           /\ facades[last.facade].problem_occurred = last.po_before

\* C1's case: warning() on a facade constructed with ERROR, while the shared
\* logger has since been lowered and would itself let the record through.
C1_Witness ==
    /\ last.op = "log"
    /\ last.sev = "WARNING"
    /\ configured[last.facade] = "ERROR"
    /\ isEnabledFor(loggers[last.logger], Rank("WARNING"))
    /\ Len(last.handlers_before) = 2
    /\ ~last.po_before

\* C2: a call of critical/error/warning at or above the facade's configured
\* threshold leaves problem_occurred true and appends exactly one record to
\* each sink of the logger, which are one console sink and one file sink.
C2_ProblemCallWritesOnce ==
    (last.op = "log" /\ last.sev \in Problems
        /\ Rank(last.sev) >= Rank(configured[last.facade]))
        => /\ facades[last.facade].problem_occurred
           /\ OneConsoleOneFile(Handlers(last.logger))
           /\ \A i \in Ids(Handlers(last.logger)) :
                  sinks[i] = Append(last.sinks_before[i],
                                    [sev |-> last.sev, facade |-> last.facade])

\* C3: once two or more facades have been constructed against a logger name,
\* that logger has exactly one console sink and exactly one file sink.
C3_NoDuplicateSinks ==
    \A n \in LoggerNames :
        Cardinality({f \in DOMAIN facades : facades[f].logger = n}) >= 2
            => OneConsoleOneFile(Handlers(n))

\* C3's case: a second construction with another threshold and another file
\* path has just completed against the same name.
C3_Witness ==
    /\ last.op = "construct"
    /\ Len(facades) >= 2
    /\ facades[1].logger = facades[2].logger
    /\ configured[1] # configured[2]
    /\ facades[1].save_path # facades[2].save_path
    /\ Len(last.handlers_before) = 2
    /\ OneConsoleOneFile(Handlers(last.logger))

C5_ReplaceDetachesAll ==
    last.op = "replace_handlers"
        => /\ OneConsoleOneFile(Handlers(last.logger))
           /\ Ids(Handlers(last.logger)) \cap Ids(last.handlers_before) = {}

\* whether a record of a problem severity reached some sink through facade f
ProblemWritten(f) ==
    \E i \in DOMAIN sinks : \E k \in 1..Len(sinks[i]) :
        sinks[i][k].facade = f /\ sinks[i][k].sev \in Problems

\* C6: a facade's problem_occurred is true exactly when a CRITICAL, ERROR or
\* WARNING record was written to a sink through that facade.
C6_ProblemIffWritten ==
    \A f \in DOMAIN facades :
        facades[f].problem_occurred <=> ProblemWritten(f)

\* C7: a construction that raises while attaching the file sink leaves the
\* logger with the handlers it had before.
C7_FailedConstructionLeavesNothing ==
    last.op = "construct_raised"
        => Handlers(last.logger) = last.handlers_before

\* C8: every facade's cached flags agree with what the logger's current
\* level admits.
C8_CacheCoherent ==
    \A f \in DOMAIN facades : \A s \in Severities :
        facades[f].log_level_is_on[s]
            <=> isEnabledFor(loggers[facades[f].logger], Rank(s))

\* C9: when both threads have finished constructing, the logger has exactly
\* one console sink and exactly one file sink.
C9_ConcurrentNoDuplicates ==
    (\A t \in Threads : pc[t] = "done")
        => \A n \in LoggerNames : OneConsoleOneFile(Handlers(n))

\* C10: after a successful construction the logger has at least one console
\* sink and at least one file sink, whatever was attached before.
C10_BothSinksAfterConstruction ==
    last.op = "construct"
        => /\ Len(ConsoleSinks(Handlers(last.logger))) >= 1
           /\ Len(FileSinks(Handlers(last.logger))) >= 1

=============================================================================
